---- MODULE Spec2Model ----
(***************************************************************************)
(* drake::NArySystem<UnitSystem> (drake/systems/n_ary_system.h): an        *)
(* aggregate of unit systems whose state, input and output vectors are the *)
(* concatenation of the unit systems' vectors.                             *)
(*                                                                         *)
(* The aggregate is single-threaded and synchronous, so every public       *)
(* member function is one action, taken by a caller that holds no pending  *)
(* result.  The record `last` is what the caller holds after the call: the *)
(* operation, its arguments, what it returned or threw, and the sequence   *)
(* of unit-system invocations the call made, in the order made.  Results   *)
(* are values owned by the caller, who drops them (Discard) before the     *)
(* next call.                                                              *)
(***************************************************************************)
EXTENDS Integers, Sequences, FiniteSets

\* Largest number of unit systems registered in the model.
MaxUnits == 2

\* Values of the ScalarType time argument.
Times == {0, 1}

\* Values a per-unit vector takes in a composite vector handed in by a caller.
UnitValues == {0, 1}

VARIABLES systems_, added, last

vars == <<systems_, added, last>>

(***************************************************************************)
(* The UnitSystem template parameter.  A unit system reports two flags;    *)
(* its dynamics is x' = -x + u (+ t when time-varying) and its output is   *)
(* y = x (+ u with direct feedthrough).  A time-varying unit rejects a     *)
(* time beyond its state, a feedthrough unit rejects an input beyond its   *)
(* state: both throw a domain_error that names the rejected arguments.     *)
(***************************************************************************)
UnitSystems == [tv : BOOLEAN, df : BOOLEAN]

StateDim == 2

InputDim == 1

OutputDim == 3

NoError == [type |-> "none", what |-> "", at |-> <<>>]

DomainError(what, t, x, u) == [type |-> "domain_error", what |-> what, at |-> <<t, x, u>>]

Value(v) == [ok |-> TRUE, value |-> v, error |-> NoError]

Failure(e) == [ok |-> FALSE, value |-> 0, error |-> e]

UnitDynamics(sys, t, x, u) ==
    IF sys.tv /\ t > x
    THEN Failure(DomainError("dynamics", t, x, u))
    ELSE Value(u - x + (IF sys.tv THEN t ELSE 0))

UnitOutput(sys, t, x, u) ==
    IF sys.df /\ u > x
    THEN Failure(DomainError("output", t, x, u))
    ELSE Value(x + (IF sys.df THEN u ELSE 0))

UnitIsTimeVarying(sys) == sys.tv

UnitIsDirectFeedthrough(sys) == sys.df

(***************************************************************************)
(* NAryState, the composite vector: a unit count (negative when the vector *)
(* carries no unit count) and the per-unit vectors in index order.         *)
(***************************************************************************)
Unsized == -1

DefaultUnit == 0

OutOfRange == [type |-> "out_of_range", what |-> "index", at |-> <<>>]

\* NAryState(count): count default-valued per-unit slots.
NAryStateSized(n) == [count |-> n, units |-> [k \in 1..n |-> DefaultUnit]]

count(v) == v.count

\* get(i); indices are 0-based as in the source.
get(v, i) ==
    IF v.count >= 0 /\ i >= v.count
    THEN Failure(OutOfRange)
    ELSE Value(v.units[i + 1])

set(v, i, x) == [v EXCEPT !.units[i + 1] = x]

rowsFromUnitCount(n, unitDim) == n * unitDim

\* Composite vectors a caller can hand in: sized ones of every count from 0
\* to MaxUnits, and unsized ones, which yield a per-unit vector at every index
\* the aggregate asks for.
SizedVectors == UNION {[count : {k}, units : [1..k -> UnitValues]] : k \in 0..MaxUnits}

UnsizedVectors == [count : {Unsized}, units : [1..MaxUnits -> UnitValues]]

CompositeVectors == SizedVectors \cup UnsizedVectors

(***************************************************************************)
(* What a call of the aggregate produces.                                  *)
(***************************************************************************)
NoVector == [count |-> Unsized, units |-> <<>>]

StateCountMessage == "State count differs from systems count."

InputCountMessage == "Input count differs from systems count."

InvalidArgument(msg) == [type |-> "invalid_argument", what |-> msg, at |-> <<>>]

Returned(v, calls) == [kind |-> "return", vector |-> v, error |-> NoError, calls |-> calls]

Thrown(e, calls) == [kind |-> "throw", vector |-> NoVector, error |-> e, calls |-> calls]

Invocation(i, sys, t, x, u) == [index |-> i, system |-> sys, time |-> t, state |-> x, input |-> u]

(***************************************************************************)
(* NArySystem                                                              *)
(***************************************************************************)
\* Mutation: the unit is inserted at the front (push_front for push_back).
push_front(systems, system) == <<system>> \o systems

push_back(systems, system) == Append(systems, system)

\* Mutation: the unit is handed the input slice as its state and the state
\* slice as its input.
RECURSIVE dynamicsLoop_swapped(_, _, _, _, _, _, _)
dynamicsLoop_swapped(systems, time, state, input, i, xdot, calls) ==
    IF i >= Len(systems)
    THEN Returned(xdot, calls)
    ELSE LET x == get(state, i)
             u == get(input, i)
         IN  IF ~x.ok THEN Thrown(x.error, calls)
             ELSE IF ~u.ok THEN Thrown(u.error, calls)
             ELSE LET r == UnitDynamics(systems[i + 1], time, u.value, x.value)
                      made == Append(calls, Invocation(i, systems[i + 1], time, u.value, x.value))
                  IN  IF ~r.ok THEN Thrown(r.error, made)
                      ELSE dynamicsLoop_swapped(systems, time, state, input, i + 1,
                                                set(xdot, i, r.value), made)

\* Mutation: a unit's failure is caught, the loop goes on with the remaining
\* units, and the first failure is rethrown after the loop.
RECURSIVE dynamicsLoop_continues(_, _, _, _, _, _, _)
dynamicsLoop_continues(systems, time, state, input, i, xdot, calls) ==
    IF i >= Len(systems)
    THEN Returned(xdot, calls)
    ELSE LET x == get(state, i)
             u == get(input, i)
         IN  IF ~x.ok THEN Thrown(x.error, calls)
             ELSE IF ~u.ok THEN Thrown(u.error, calls)
             ELSE LET r == UnitDynamics(systems[i + 1], time, x.value, u.value)
                      made == Append(calls, Invocation(i, systems[i + 1], time, x.value, u.value))
                      rest == dynamicsLoop_continues(systems, time, state, input, i + 1,
                                                     set(xdot, i, r.value), made)
                  IN  IF ~r.ok THEN Thrown(r.error, rest.calls) ELSE rest

RECURSIVE dynamicsLoop(_, _, _, _, _, _, _)
dynamicsLoop(systems, time, state, input, i, xdot, calls) ==
    IF i >= Len(systems)
    THEN Returned(xdot, calls)
    ELSE LET x == get(state, i)
             u == get(input, i)
         IN  IF ~x.ok THEN Thrown(x.error, calls)
             ELSE IF ~u.ok THEN Thrown(u.error, calls)
             ELSE LET r == UnitDynamics(systems[i + 1], time, x.value, u.value)
                      made == Append(calls, Invocation(i, systems[i + 1], time, x.value, u.value))
                  IN  IF ~r.ok THEN Thrown(r.error, made)
                      ELSE dynamicsLoop(systems, time, state, input, i + 1,
                                        set(xdot, i, r.value), made)

\* Mutation: the input count is checked before the state count.
dynamics_inputFirst(systems, time, state, input) ==
    IF count(input) >= 0 /\ count(input) # Len(systems)
    THEN Thrown(InvalidArgument(InputCountMessage), <<>>)
    ELSE IF count(state) >= 0 /\ count(state) # Len(systems)
    THEN Thrown(InvalidArgument(StateCountMessage), <<>>)
    ELSE dynamicsLoop(systems, time, state, input, 0, NAryStateSized(Len(systems)), <<>>)

\* Mutation: the input count is checked after the loop over the units.
dynamics_lateInputCheck(systems, time, state, input) ==
    IF count(state) >= 0 /\ count(state) # Len(systems)
    THEN Thrown(InvalidArgument(StateCountMessage), <<>>)
    ELSE LET done == dynamicsLoop(systems, time, state, input, 0,
                                  NAryStateSized(Len(systems)), <<>>)
         IN  IF count(input) >= 0 /\ count(input) # Len(systems)
             THEN Thrown(InvalidArgument(InputCountMessage), done.calls)
             ELSE done

dynamics(systems, time, state, input) ==
    IF count(state) >= 0 /\ count(state) # Len(systems)
    THEN Thrown(InvalidArgument(StateCountMessage), <<>>)
    ELSE IF count(input) >= 0 /\ count(input) # Len(systems)
    THEN Thrown(InvalidArgument(InputCountMessage), <<>>)
    ELSE dynamicsLoop(systems, time, state, input, 0, NAryStateSized(Len(systems)), <<>>)

\* Mutation: every unit is handed the slices of index 0.
RECURSIVE outputLoop_firstSlice(_, _, _, _, _, _, _)
outputLoop_firstSlice(systems, time, state, input, i, y, calls) ==
    IF i >= Len(systems)
    THEN Returned(y, calls)
    ELSE LET x == get(state, 0)
             u == get(input, 0)
         IN  IF ~x.ok THEN Thrown(x.error, calls)
             ELSE IF ~u.ok THEN Thrown(u.error, calls)
             ELSE LET r == UnitOutput(systems[i + 1], time, x.value, u.value)
                      made == Append(calls, Invocation(i, systems[i + 1], time, x.value, u.value))
                  IN  IF ~r.ok THEN Thrown(r.error, made)
                      ELSE outputLoop_firstSlice(systems, time, state, input, i + 1,
                                                 set(y, i, r.value), made)

RECURSIVE outputLoop(_, _, _, _, _, _, _)
outputLoop(systems, time, state, input, i, y, calls) ==
    IF i >= Len(systems)
    THEN Returned(y, calls)
    ELSE LET x == get(state, i)
             u == get(input, i)
         IN  IF ~x.ok THEN Thrown(x.error, calls)
             ELSE IF ~u.ok THEN Thrown(u.error, calls)
             ELSE LET r == UnitOutput(systems[i + 1], time, x.value, u.value)
                      made == Append(calls, Invocation(i, systems[i + 1], time, x.value, u.value))
                  IN  IF ~r.ok THEN Thrown(r.error, made)
                      ELSE outputLoop(systems, time, state, input, i + 1,
                                      set(y, i, r.value), made)

\* Mutation: the input count is not checked.
output_noInputCheck(systems, time, state, input) ==
    IF count(state) >= 0 /\ count(state) # Len(systems)
    THEN Thrown(InvalidArgument(StateCountMessage), <<>>)
    ELSE outputLoop(systems, time, state, input, 0, NAryStateSized(Len(systems)), <<>>)

\* Mutation: the counts are compared without the test for a negative count.
output_unsizedRejected(systems, time, state, input) ==
    IF count(state) # Len(systems)
    THEN Thrown(InvalidArgument(StateCountMessage), <<>>)
    ELSE IF count(input) # Len(systems)
    THEN Thrown(InvalidArgument(InputCountMessage), <<>>)
    ELSE outputLoop(systems, time, state, input, 0, NAryStateSized(Len(systems)), <<>>)

output(systems, time, state, input) ==
    IF count(state) >= 0 /\ count(state) # Len(systems)
    THEN Thrown(InvalidArgument(StateCountMessage), <<>>)
    ELSE IF count(input) >= 0 /\ count(input) # Len(systems)
    THEN Thrown(InvalidArgument(InputCountMessage), <<>>)
    ELSE outputLoop(systems, time, state, input, 0, NAryStateSized(Len(systems)), <<>>)

\* Mutation: time-varying when any unit is.
isTimeVarying_anyUnit(systems) == \E k \in 1..Len(systems) : UnitIsTimeVarying(systems[k])

isTimeVarying(systems) == (Len(systems) > 0) /\ UnitIsTimeVarying(systems[1])

isDirectFeedthrough(systems) == (Len(systems) > 0) /\ UnitIsDirectFeedthrough(systems[1])

\* Mutation: the rows of the input vector type are reported.
getNumStates_inputRows(systems) == rowsFromUnitCount(Len(systems), InputDim)

getNumStates(systems) == rowsFromUnitCount(Len(systems), StateDim)

getNumInputs(systems) == rowsFromUnitCount(Len(systems), InputDim)

getNumOutputs(systems) == rowsFromUnitCount(Len(systems), OutputDim)

(***************************************************************************)
(* The state machine.                                                      *)
(***************************************************************************)
NoSystem == [tv |-> FALSE, df |-> FALSE]

Idle == [op |-> "none", system |-> NoSystem, time |-> 0,
         state |-> NoVector, input |-> NoVector,
         result |-> Returned(NoVector, <<>>), flag |-> FALSE, rows |-> 0]

Init ==
    /\ systems_ = <<>>
    /\ added = <<>>
    /\ last = Idle

AddSystem ==
    \E system \in UnitSystems :
        /\ last.op = "none"
        /\ Len(systems_) < MaxUnits
        /\ systems_' = push_back(systems_, system)
        /\ added' = Append(added, system)
        /\ last' = [Idle EXCEPT !.op = "addSystem", !.system = system]

Dynamics ==
    \E time \in Times, state \in CompositeVectors, input \in CompositeVectors :
        /\ last.op = "none"
        /\ last' = [Idle EXCEPT !.op = "dynamics", !.time = time, !.state = state,
                                !.input = input,
                                !.result = dynamics(systems_, time, state, input)]
        /\ UNCHANGED <<systems_, added>>

Output ==
    \E time \in Times, state \in CompositeVectors, input \in CompositeVectors :
        /\ last.op = "none"
        /\ last' = [Idle EXCEPT !.op = "output", !.time = time, !.state = state,
                                !.input = input,
                                !.result = output(systems_, time, state, input)]
        /\ UNCHANGED <<systems_, added>>

IsTimeVarying ==
    /\ last.op = "none"
    /\ last' = [Idle EXCEPT !.op = "isTimeVarying", !.flag = isTimeVarying(systems_)]
    /\ UNCHANGED <<systems_, added>>

IsDirectFeedthrough ==
    /\ last.op = "none"
    /\ last' = [Idle EXCEPT !.op = "isDirectFeedthrough",
                            !.flag = isDirectFeedthrough(systems_)]
    /\ UNCHANGED <<systems_, added>>

GetNumStates ==
    /\ last.op = "none"
    /\ last' = [Idle EXCEPT !.op = "getNumStates", !.rows = getNumStates(systems_)]
    /\ UNCHANGED <<systems_, added>>

GetNumInputs ==
    /\ last.op = "none"
    /\ last' = [Idle EXCEPT !.op = "getNumInputs", !.rows = getNumInputs(systems_)]
    /\ UNCHANGED <<systems_, added>>

GetNumOutputs ==
    /\ last.op = "none"
    /\ last' = [Idle EXCEPT !.op = "getNumOutputs", !.rows = getNumOutputs(systems_)]
    /\ UNCHANGED <<systems_, added>>

Discard ==
    /\ last.op # "none"
    /\ last' = Idle
    /\ UNCHANGED <<systems_, added>>

Next ==
    \/ AddSystem
    \/ Dynamics
    \/ Output
    \/ IsTimeVarying
    \/ IsDirectFeedthrough
    \/ GetNumStates
    \/ GetNumInputs
    \/ GetNumOutputs
    \/ Discard

Spec == Init /\ [][Next]_vars

(***************************************************************************)
(* Vocabulary of the properties.                                           *)
(***************************************************************************)
n == Len(systems_)

IsCall == last.op \in {"dynamics", "output"}

StateMismatch == last.state.count >= 0 /\ last.state.count # n

InputMismatch == last.input.count >= 0 /\ last.input.count # n

\* What the unit at index i answers to its slices of the caller's vectors.
Expected(i) ==
    IF last.op = "dynamics"
    THEN UnitDynamics(systems_[i + 1], last.time, last.state.units[i + 1], last.input.units[i + 1])
    ELSE UnitOutput(systems_[i + 1], last.time, last.state.units[i + 1], last.input.units[i + 1])

Failing == {i \in 0..(n - 1) : ~Expected(i).ok}

FirstFailing == CHOOSE i \in Failing : \A j \in Failing : i <= j

\* The same call with the slices of index i replaced by x and u.
Varied(i, x, u) ==
    LET state == [last.state EXCEPT !.units[i + 1] = x]
        input == [last.input EXCEPT !.units[i + 1] = u]
    IN  IF last.op = "dynamics"
        THEN dynamics(systems_, last.time, state, input)
        ELSE output(systems_, last.time, state, input)

\* C1: with state and input counts each n or negative, dynamics (output)
\* returns a vector of count n whose element i is what unit i's dynamics
\* (output) answers to (time, state.get(i), input.get(i)).
C1_ElementwiseResult ==
    (IsCall /\ ~StateMismatch /\ ~InputMismatch) =>
        /\ (Failing = {}) => last.result.kind = "return"
        /\ (last.result.kind = "return") =>
              /\ last.result.vector.count = n
              /\ Len(last.result.vector.units) = n
              /\ \A i \in 0..(n - 1) :
                    /\ Expected(i).ok
                    /\ last.result.vector.units[i + 1] = Expected(i).value

C1_Witness ==
    /\ last.op = "dynamics"
    /\ n >= 2
    /\ last.state.count = n
    /\ last.input.count < 0
    /\ last.result.kind = "return"
    /\ last.result.vector.units[1] # last.result.vector.units[2]

\* C2: a state count that is known and differs from n makes dynamics and
\* output throw invalid_argument with the state-count message, whatever the
\* input vector.
C2_StateCountRejected ==
    (IsCall /\ StateMismatch) =>
        /\ last.result.kind = "throw"
        /\ last.result.error.type = "invalid_argument"
        /\ last.result.error.what = "State count differs from systems count."

C2_Witness ==
    /\ last.op = "output"
    /\ n >= 1
    /\ StateMismatch
    /\ InputMismatch
    /\ last.result.kind = "throw"

\* C3 as stated: an input count that is known and differs from n makes
\* dynamics and output throw invalid_argument with the input-count message,
\* for every state vector, one with a mismatching count included.
C3_InputCountAlwaysReported ==
    (IsCall /\ InputMismatch) =>
        /\ last.result.kind = "throw"
        /\ last.result.error.type = "invalid_argument"
        /\ last.result.error.what = "Input count differs from systems count."

\* C3 as amended: an input count that is known and differs from n makes
\* dynamics and output throw invalid_argument; the message is the
\* input-count message when the state count is negative or equals n, and the
\* (different) state-count message when the state count mismatches too.
C3_InputCountRejected ==
    (IsCall /\ InputMismatch) =>
        /\ last.result.kind = "throw"
        /\ last.result.error.type = "invalid_argument"
        /\ ~StateMismatch =>
              last.result.error.what = "Input count differs from systems count."
        /\ StateMismatch =>
              last.result.error.what = "State count differs from systems count."

C3_Witness ==
    /\ last.op = "output"
    /\ n >= 1
    /\ InputMismatch
    /\ last.state.count = n
    /\ last.result.kind = "throw"
    /\ last.result.error.what = "Input count differs from systems count."

\* C4: a negative count is never rejected: the state check is skipped when
\* the state is unsized, the input check when the input is unsized, and a
\* call with both unsized throws no count mismatch and goes on to evaluate the
\* units from index 0, all of 0..n-1 when it returns.
C4_UnsizedNotRejected ==
    IsCall =>
        /\ (last.state.count < 0) =>
              last.result.error.what # "State count differs from systems count."
        /\ (last.input.count < 0) =>
              last.result.error.what # "Input count differs from systems count."
        /\ (last.state.count < 0 /\ last.input.count < 0) =>
              /\ last.result.error.type # "invalid_argument"
              /\ (n > 0) => (last.result.calls # <<>> /\ last.result.calls[1].index = 0)
              /\ (last.result.kind = "return") =>
                    {last.result.calls[k].index : k \in 1..Len(last.result.calls)} = 0..(n - 1)

C4_Witness ==
    /\ last.op = "output"
    /\ n >= 2
    /\ last.state.count < 0
    /\ last.input.count < 0
    /\ last.result.kind = "return"
    /\ Len(last.result.calls) = n

\* C5: two calls on the same aggregate at the same time whose valid vectors
\* agree at every index but i return results that agree at every index but i.
C5_DirectSum ==
    (IsCall /\ ~StateMismatch /\ ~InputMismatch /\ last.result.kind = "return") =>
        \A i \in 0..(n - 1) : \A x \in UnitValues, u \in UnitValues :
            LET other == Varied(i, x, u)
            IN  (other.kind = "return") =>
                    /\ other.vector.count = last.result.vector.count
                    /\ \A j \in (0..(n - 1)) \ {i} :
                          other.vector.units[j + 1] = last.result.vector.units[j + 1]

C5_Witness ==
    /\ IsCall
    /\ n >= 2
    /\ ~StateMismatch
    /\ ~InputMismatch
    /\ last.result.kind = "return"
    /\ \E x \in UnitValues, u \in UnitValues :
          /\ Varied(1, x, u).kind = "return"
          /\ Varied(1, x, u).vector.units[2] # last.result.vector.units[2]

\* C6: the registered sequence is the sequence of units passed to addSystem,
\* in that order; addSystem appends exactly its argument and changes no
\* existing entry; no other operation changes the sequence, failing or not;
\* and a call invokes exactly the units registered, each at its own index.
C6_State ==
    /\ systems_ = added
    /\ IsCall =>
          \A k \in 1..Len(last.result.calls) :
              /\ last.result.calls[k].index \in 0..(n - 1)
              /\ last.result.calls[k].system = systems_[last.result.calls[k].index + 1]

C6_Step ==
    /\ (last'.op = "addSystem") => (systems_' = systems_ \o <<last'.system>>)
    /\ (last'.op # "addSystem") => (systems_' = systems_)
    /\ \A k \in 1..Len(systems_) : systems_'[k] = systems_[k]

C6_AppendOnly == [](C6_State) /\ [][C6_Step]_vars

C6_Witness ==
    /\ n = 2
    /\ systems_[1] # systems_[2]
    /\ IsCall
    /\ last.result.kind = "throw"
    /\ last.result.calls # <<>>

\* C7: with n units registered, getNumStates, getNumInputs and getNumOutputs
\* are n times the per-unit dimension of the state, input and output vector
\* type; all are 0 when n = 0, and addSystem raises each by that dimension.
C7_State ==
    /\ (last.op = "getNumStates") => (last.rows = n * StateDim)
    /\ (last.op = "getNumInputs") => (last.rows = n * InputDim)
    /\ (last.op = "getNumOutputs") => (last.rows = n * OutputDim)
    /\ (n = 0 /\ last.op \in {"getNumStates", "getNumInputs", "getNumOutputs"}) =>
          (last.rows = 0)

C7_Step ==
    (last'.op = "addSystem") =>
        /\ getNumStates(systems_') = getNumStates(systems_) + StateDim
        /\ getNumInputs(systems_') = getNumInputs(systems_) + InputDim
        /\ getNumOutputs(systems_') = getNumOutputs(systems_) + OutputDim

C7_Dimensions == [](C7_State) /\ [][C7_Step]_vars

C7_Witness ==
    /\ last.op = "getNumStates"
    /\ n = 2
    /\ last.rows = 4

\* C8: isTimeVarying (isDirectFeedthrough) is true exactly when the aggregate
\* is non-empty and the unit at index 0 reports time-varying (direct
\* feedthrough); both are false on an empty aggregate, and no addSystem after
\* the first changes either.
C8_State ==
    /\ (last.op = "isTimeVarying") => (last.flag <=> (n > 0 /\ systems_[1].tv))
    /\ (last.op = "isDirectFeedthrough") => (last.flag <=> (n > 0 /\ systems_[1].df))
    /\ (n = 0 /\ last.op \in {"isTimeVarying", "isDirectFeedthrough"}) => ~last.flag

C8_Step ==
    (Len(systems_) >= 1) =>
        /\ isTimeVarying(systems_') = isTimeVarying(systems_)
        /\ isDirectFeedthrough(systems_') = isDirectFeedthrough(systems_)

C8_FirstUnitFlags == [](C8_State) /\ [][C8_Step]_vars

C8_Witness ==
    /\ last.op = "isTimeVarying"
    /\ n = 2
    /\ ~systems_[1].tv
    /\ systems_[2].tv
    /\ ~last.flag

\* C9: a call that fails with a state-count or input-count mismatch has
\* invoked no unit and produced no vector; a call that invoked a unit has
\* passed both count checks.
C9_NoPartialComputation ==
    IsCall =>
        /\ (StateMismatch \/ InputMismatch) =>
              /\ last.result.kind = "throw"
              /\ last.result.calls = <<>>
              /\ last.result.vector = NoVector
        /\ (last.result.error.type = "invalid_argument") =>
              /\ last.result.calls = <<>>
              /\ last.result.vector = NoVector
        /\ (last.result.calls # <<>>) => (~StateMismatch /\ ~InputMismatch)

C9_Witness ==
    /\ last.op = "dynamics"
    /\ n >= 1
    /\ last.state.count < 0
    /\ last.input.count > n
    /\ last.result.kind = "throw"
    /\ last.result.calls = <<>>

\* C10: a call that passed the count checks invokes the units in index order
\* 0, 1, ..., each once, on its own slices; when unit i is the first to fail,
\* the call throws that unit's failure as it is, has invoked exactly units
\* 0..i and returns no vector; when no unit fails, all n are invoked and the
\* call returns.
C10_InOrderUntilFailure ==
    (IsCall /\ ~StateMismatch /\ ~InputMismatch) =>
        /\ Len(last.result.calls) <= n
        /\ \A k \in 1..Len(last.result.calls) :
              last.result.calls[k] =
                  [index |-> k - 1, system |-> systems_[k], time |-> last.time,
                   state |-> last.state.units[k], input |-> last.input.units[k]]
        /\ (Failing = {}) =>
              /\ last.result.kind = "return"
              /\ Len(last.result.calls) = n
        /\ (Failing # {}) =>
              /\ last.result.kind = "throw"
              /\ last.result.error = Expected(FirstFailing).error
              /\ last.result.error.type = "domain_error"
              /\ Len(last.result.calls) = FirstFailing + 1
              /\ last.result.vector = NoVector

C10_Witness ==
    /\ last.op = "dynamics"
    /\ n = 2
    /\ ~StateMismatch
    /\ ~InputMismatch
    /\ Failing = {0, 1}
    /\ last.result.kind = "throw"
    /\ Len(last.result.calls) = 1

====
